---- MODULE Spec2Model ----
(***************************************************************************)
(* audio-to-text: splitting of an oversized audio file, per-chunk          *)
(* transcription through the configured provider, reassembly of the        *)
(* diarized word list into speaker-labelled lines, and the orchestrator's  *)
(* handling of the output and working directories.                         *)
(*                                                                         *)
(* Text is modelled as a sequence of atoms (a word, " ", "\n", ": ", a     *)
(* decimal numeral, ...); string concatenation is \o.  A file path is a    *)
(* record [dir, stem, ext]: dir the sequence of directory components,      *)
(* stem the text before the extension, ext the extension.                  *)
(***************************************************************************)
EXTENDS Integers, Sequences, FiniteSets, TLC

VARIABLES
    audio_filename,   \* argument of transcribe_audio (relative file name)
    size_bytes,       \* os.path.getsize of the source audio file
    duration,         \* what ffprobe reports for it, seconds as num/den
    provider_cfg,     \* config.AUDIO_TO_TEXT_PROVIDER
    api_key,          \* config ELEVENLABS_API_KEY is set
    dirs,             \* directories that exist
    files,            \* files that exist: path |-> content
    pc,               \* position inside transcribe_audio
    audio_parts,      \* result of split_audio_if_needed
    idx,              \* loop counter of the for loop over audio_parts
    ffprobe_runs,     \* number of ffprobe invocations
    ffmpeg_runs,      \* ffmpeg invocations, in order: [ss, t, out]
    split_dir_made,   \* directories passed to makedirs by the splitter
    removed_dirs,     \* directories removed by os.rmdir
    attempts,         \* per processed chunk: [part_idx, path, outcome]
    printed,          \* what the run reported ("", "not_found", ...)
    response,         \* what the remote endpoint answers to the current call
    calls,            \* number of provider calls made so far
    call              \* locals of the last ScribeProvider.transcribe call

vars == <<audio_filename, size_bytes, duration, provider_cfg, api_key, dirs,
          files, pc, audio_parts, idx, ffprobe_runs, ffmpeg_runs,
          split_dir_made, removed_dirs, attempts, printed, response, calls,
          call>>

env_vars == <<audio_filename, size_bytes, duration, provider_cfg, api_key>>

(***************************************************************************)
(* Bounds of the model.                                                    *)
(***************************************************************************)
MaxWords == 4        \* longest word list a response carries
MaxCalls == 2        \* provider calls in the provider-only specification

(***************************************************************************)
(* Text helpers.                                                           *)
(***************************************************************************)
RECURSIVE Join(_, _)
\* sep.join(parts): parts is a sequence of texts
Join(sep, parts) ==
    IF parts = <<>> THEN <<>>
    ELSE IF Len(parts) = 1 THEN parts[1]
    ELSE parts[1] \o sep \o Join(sep, Tail(parts))

\* number of characters of one atom
AtomLen(a) ==
    CASE a = "Hello" -> 5
      [] a = "there" -> 5
      [] a = "Hi" -> 2
      [] OTHER -> 1

RECURSIVE StrLen(_)
\* len(text)
StrLen(s) == IF s = <<>> THEN 0 ELSE AtomLen(Head(s)) + StrLen(Tail(s))

(***************************************************************************)
(* ScribeProvider.transcribe: reassembly of result["words"].               *)
(***************************************************************************)
None == "<None>"

\* word.get("speaker_id", "speaker_0")
SpeakerIdOf(word) ==
    IF "speaker_id" \in DOMAIN word THEN word.speaker_id ELSE "speaker_0"

\* position of key spk in the insertion-ordered dict d, 0 when absent
KeyPos(d, spk) ==
    IF \E i \in 1..Len(d) : d[i].spk = spk
    THEN CHOOSE i \in 1..Len(d) : d[i].spk = spk
    ELSE 0

RECURSIVE FirstTextPass(_, _)
\* first loop: local_speaker_first_text, a dict kept in insertion order
FirstTextPass(words, d) ==
    IF words = <<>> THEN d
    ELSE LET word == Head(words)
             spk  == SpeakerIdOf(word)
             pos  == KeyPos(d, spk)
         IN  IF word.type # "word" THEN FirstTextPass(Tail(words), d)
             ELSE IF pos = 0
             THEN FirstTextPass(Tail(words),
                                Append(d, [spk |-> spk, text |-> word.text]))
             ELSE IF StrLen(d[pos].text) < 80
             THEN FirstTextPass(Tail(words),
                     [d EXCEPT ![pos].text = @ \o <<" ">> \o word.text])
             ELSE FirstTextPass(Tail(words), d)

\* f"speaker_{n}"
SpeakerLabel(n) == <<"speaker_", ToString(n)>>

\* a plausible fault: the numbering continues from the calls made before
SpeakerMapCarried(speaker_ids) ==
    [spk \in {speaker_ids[i] : i \in 1..Len(speaker_ids)} |->
        SpeakerLabel(calls +
            (CHOOSE i \in 1..Len(speaker_ids) : speaker_ids[i] = spk))]

\* speaker_map = {spk: f"speaker_{i+1}" for i, spk in enumerate(speaker_ids)}
SpeakerMap(speaker_ids) ==
    [spk \in {speaker_ids[i] : i \in 1..Len(speaker_ids)} |->
        SpeakerLabel(CHOOSE i \in 1..Len(speaker_ids) : speaker_ids[i] = spk)]

\* speaker_map.get(spk, "speaker_1")
MapGet(speaker_map, spk) ==
    IF spk \in DOMAIN speaker_map THEN speaker_map[spk] ELSE <<"speaker_", "1">>

\* f"{label}: {' '.join(current_line)}"
FormatLine(label, current_line) == label \o <<": ">> \o Join(<<" ">>, current_line)

\* a plausible fault: tokens of every type are taken as words
OutputStepNoSkip(st, word, speaker_map) ==
    LET spk == SpeakerIdOf(word)
        speaker_label == MapGet(speaker_map, spk)
    IN  IF st.current_speaker # spk
        THEN [current_speaker |-> spk,
              current_line    |-> <<word.text>>,
              output_lines    |->
                  IF st.current_line # <<>>
                  THEN Append(st.output_lines,
                              FormatLine(speaker_label, st.current_line))
                  ELSE st.output_lines,
              segments        |->
                  IF st.current_line # <<>>
                  THEN Append(st.segments,
                              <<speaker_label, Join(<<" ">>, st.current_line)>>)
                  ELSE st.segments]
        ELSE [st EXCEPT !.current_line = Append(@, word.text)]

\* body of the second loop, for one token
OutputStep(st, word, speaker_map) ==
    LET spk == SpeakerIdOf(word)
        speaker_label == MapGet(speaker_map, spk)
    IN  IF word.type # "word" THEN st
        ELSE IF st.current_speaker # spk
        THEN [current_speaker |-> spk,
              current_line    |-> <<word.text>>,
              output_lines    |->
                  IF st.current_line # <<>>
                  THEN Append(st.output_lines,
                              FormatLine(speaker_label, st.current_line))
                  ELSE st.output_lines,
              segments        |->
                  IF st.current_line # <<>>
                  THEN Append(st.segments,
                              <<speaker_label, Join(<<" ">>, st.current_line)>>)
                  ELSE st.segments]
        ELSE [st EXCEPT !.current_line = Append(@, word.text)]

RECURSIVE OutputPass(_, _, _)
\* second loop over result["words"]
OutputPass(words, speaker_map, st) ==
    IF words = <<>> THEN st
    ELSE OutputPass(Tail(words), speaker_map,
                    OutputStep(st, Head(words), speaker_map))

\* the final flush after the second loop
FinalFlush(st, speaker_map) ==
    IF st.current_line # <<>>
    THEN [st EXCEPT
            !.output_lines = Append(@,
                FormatLine(MapGet(speaker_map, st.current_speaker),
                           st.current_line)),
            !.segments = Append(@,
                <<MapGet(speaker_map, st.current_speaker),
                  Join(<<" ">>, st.current_line)>>)]
    ELSE st

\* the "words" branch of ScribeProvider.transcribe: its locals at the return
Reassemble(words) ==
    LET first_text  == FirstTextPass(words, <<>>)
        speaker_ids == [i \in 1..Len(first_text) |-> first_text[i].spk]
        speaker_map == SpeakerMap(speaker_ids)
        st0 == [current_speaker |-> None, current_line |-> <<>>,
                output_lines |-> <<>>, segments |-> <<>>]
        st  == FinalFlush(OutputPass(words, speaker_map, st0), speaker_map)
    IN  [speaker_map  |-> speaker_map,
         output_lines |-> st.output_lines,
         segments     |-> st.segments,
         text         |-> Join(<<"\n">>, st.output_lines)]

\* locals of a ScribeProvider.transcribe call that formatted no word list
NoLocals == [speaker_map |-> <<>>, output_lines |-> <<>>, segments |-> <<>>,
             text |-> <<>>]

\* ScribeProvider.transcribe(audio_path, ...): the returned text and the
\* locals it was built from.  key: ELEVENLABS_API_KEY is set; resp: what
\* requests.post / raise_for_status / json() give for this audio
ScribeTranscribe(key, resp) ==
    IF ~key THEN [NoLocals EXCEPT !.text = <<>>]
    ELSE IF resp.status # "ok" THEN [NoLocals EXCEPT !.text = <<>>]
    ELSE IF resp.has_words THEN Reassemble(resp.words)
    ELSE [NoLocals EXCEPT !.text = resp.text]

\* WhisperProvider.transcribe(audio_path, language, prompt)
WhisperTranscribe(resp) ==
    IF resp.status # "ok" THEN <<>> ELSE resp.text

(***************************************************************************)
(* What the remote endpoint may answer.                                    *)
(***************************************************************************)
SpeakerIds == {"spk_a", "spk_b", "spk_c"}

Tokens ==
    [type : {"word"}, text : {<<"Hello">>, <<"Hi">>}, speaker_id : SpeakerIds]
    \cup [type : {"spacing"}, text : {<<" ">>}, speaker_id : SpeakerIds]
    \cup {[type |-> "word", text |-> <<"there">>]}

WordLists == UNION {[1..n -> Tokens] : n \in 0..MaxWords}

ErrorResponse == [status |-> "error", has_words |-> FALSE, words |-> <<>>,
                  text |-> <<>>]

WordsResponse(words) == [status |-> "ok", has_words |-> TRUE, words |-> words,
                         text |-> <<>>]

TextResponse(text) == [status |-> "ok", has_words |-> FALSE, words |-> <<>>,
                       text |-> text]

PlainTexts == {<<>>, <<"Hello", " ", "there">>}

Responses ==
    {ErrorResponse} \cup {WordsResponse(w) : w \in WordLists}
        \cup {TextResponse(t) : t \in PlainTexts}

NoResponse == [status |-> "none", has_words |-> FALSE, words |-> <<>>,
               text |-> <<>>]

(***************************************************************************)
(* The provider on its own: one audio, its response drawn at the start,    *)
(* submitted up to MaxCalls times to the same ScribeProvider object.       *)
(***************************************************************************)
NoFile == [dir |-> <<>>, stem |-> <<>>, ext |-> ""]

ProviderInit ==
    /\ audio_filename = NoFile
    /\ size_bytes = 0
    /\ duration = [num |-> 0, den |-> 1]
    /\ provider_cfg = "elevenlabs_scribe"
    /\ api_key \in BOOLEAN
    /\ dirs = {}
    /\ files = <<>>
    /\ pc = "provider_only"
    /\ audio_parts = <<>>
    /\ idx = 0
    /\ ffprobe_runs = 0
    /\ ffmpeg_runs = <<>>
    /\ split_dir_made = {}
    /\ removed_dirs = {}
    /\ attempts = <<>>
    /\ printed = ""
    /\ response \in Responses
    /\ calls = 0
    /\ call = NoLocals

\* one call of ScribeProvider.transcribe on the audio
ScribeCall ==
    /\ pc = "provider_only"
    /\ calls < MaxCalls
    /\ call' = ScribeTranscribe(api_key, response)
    /\ calls' = calls + 1
    /\ UNCHANGED <<env_vars, dirs, files, pc, audio_parts, idx, ffprobe_runs,
                   ffmpeg_runs, split_dir_made, removed_dirs, attempts,
                   printed, response>>

ProviderNext == ScribeCall

ProviderSpec == ProviderInit /\ [][ProviderNext]_vars

(***************************************************************************)
(* Reference notions for the reassembly, stated on the token sequence.     *)
(***************************************************************************)
\* the last provider call went through the "words" branch
CallFormattedWords ==
    /\ calls > 0
    /\ provider_cfg = "elevenlabs_scribe"
    /\ api_key
    /\ response.status = "ok"
    /\ response.has_words

\* the tokens of type "word", in order
WordTokens == SelectSeq(response.words, LAMBDA w : w.type = "word")

\* indices of WordTokens at which a maximal same-speaker run starts
RunStarts ==
    {i \in 1..Len(WordTokens) :
        i = 1 \/ SpeakerIdOf(WordTokens[i]) # SpeakerIdOf(WordTokens[i - 1])}

NumRuns == Cardinality(RunStarts)

RunStart(k) ==
    CHOOSE i \in RunStarts : Cardinality({j \in RunStarts : j < i}) = k - 1

RunEnd(k) == IF k = NumRuns THEN Len(WordTokens) ELSE RunStart(k + 1) - 1

RunSpeaker(k) == SpeakerIdOf(WordTokens[RunStart(k)])

RunText(k) ==
    Join(<<" ">>, [j \in 1..(RunEnd(k) - RunStart(k) + 1) |->
                      WordTokens[RunStart(k) + j - 1].text])

WordSpeakers == {SpeakerIdOf(WordTokens[i]) : i \in 1..Len(WordTokens)}

\* 1-based rank of spk's first appearance among the word tokens
FirstAppearanceRank(spk) ==
    LET first == CHOOSE i \in 1..Len(WordTokens) :
                    /\ SpeakerIdOf(WordTokens[i]) = spk
                    /\ \A j \in 1..(i - 1) : SpeakerIdOf(WordTokens[j]) # spk
    IN  1 + Cardinality({SpeakerIdOf(WordTokens[j]) : j \in 1..(first - 1)})

(***************************************************************************)
(* C1: every segment the reassembly emits, on a speaker change and at the  *)
(* end, carries the label of the speaker who uttered the words in it.      *)
(* The code labels a segment flushed on a speaker change with the label of *)
(* the speaker who starts the next one, so this is violated.               *)
(***************************************************************************)
C1_SegmentCarriesItsSpeakersLabel ==
    CallFormattedWords =>
        /\ Len(call.segments) = NumRuns
        /\ \A k \in 1..NumRuns :
              call.segments[k][1] = SpeakerLabel(FirstAppearanceRank(RunSpeaker(k)))

(***************************************************************************)
(* C8: within one call the label of a speaker id is "speaker_" + r, r the  *)
(* 1-based rank of the id's first appearance among the word tokens of that *)
(* call; the numbering restarts at 1 in every call.                        *)
(***************************************************************************)
C8_LabelIsFirstAppearanceRank ==
    CallFormattedWords =>
        /\ DOMAIN call.speaker_map = WordSpeakers
        /\ \A spk \in WordSpeakers :
              call.speaker_map[spk] = SpeakerLabel(FirstAppearanceRank(spk))

\* a second call on words whose speakers arrive X, Y, X, Z
C8_Witness ==
    /\ CallFormattedWords
    /\ calls = 2
    /\ Len(WordTokens) = 4
    /\ Cardinality(WordSpeakers) = 3
    /\ SpeakerIdOf(WordTokens[3]) = SpeakerIdOf(WordTokens[1])
    /\ call.speaker_map[SpeakerIdOf(WordTokens[4])] = <<"speaker_", "3">>

(***************************************************************************)
(* C9: the segments are exactly the maximal runs of consecutive            *)
(* same-speaker tokens of type "word", in order, each with the run's words *)
(* joined by single spaces; other tokens are skipped; no words give no     *)
(* segments and empty text; one speaker's words give one segment.          *)
(***************************************************************************)
C9_SegmentsAreMaximalRuns ==
    CallFormattedWords =>
        /\ Len(call.segments) = NumRuns
        /\ Len(call.output_lines) = NumRuns
        /\ \A k \in 1..NumRuns : call.segments[k][2] = RunText(k)
        /\ WordTokens = <<>> => call.segments = <<>> /\ call.text = <<>>
        /\ Cardinality(WordSpeakers) = 1 => Len(call.segments) = 1

\* a token of another type lies between two words of one run, and a second
\* run follows
C9_Witness ==
    /\ CallFormattedWords
    /\ Len(response.words) = 4
    /\ response.words[1].type = "word"
    /\ response.words[2].type # "word"
    /\ response.words[3].type = "word"
    /\ SpeakerIdOf(response.words[1]) = SpeakerIdOf(response.words[3])
    /\ SpeakerIdOf(response.words[2]) # SpeakerIdOf(response.words[1])
    /\ Len(call.segments) = 2
    /\ call.segments[1][2] = <<"Hello", " ", "Hi">>

(***************************************************************************)
(* config.py                                                               *)
(***************************************************************************)
AUDIO_DIR == << <<".">> >>

OUTPUT_DIR == << <<".">>, <<"outputs">> >>

MAX_MB == 7

(***************************************************************************)
(* Paths and the file system.                                              *)
(***************************************************************************)
\* os.path.join(directory, relative file name)
JoinFile(d, f) == [f EXCEPT !.dir = d \o f.dir]

\* os.path.join(directory, name of a subdirectory)
JoinDir(d, name) == Append(d, name)

\* os.path.splitext(os.path.basename(f))[0]
BaseName(f) == f.stem

\* os.path.dirname(f)
DirName(f) == f.dir

\* os.makedirs(d, exist_ok=True): d and every missing ancestor
MakeDirs(ds, d) == ds \cup {SubSeq(d, 1, k) : k \in 1..Len(d)}

\* not os.listdir(d)
IsEmptyDir(ds, fs, d) ==
    /\ \A f \in DOMAIN fs : f.dir # d
    /\ \A e \in ds : ~(Len(e) = Len(d) + 1 /\ SubSeq(e, 1, Len(d)) = d)

\* the map fs without the file f
RemoveFile(fs, f) == [g \in (DOMAIN fs) \ {f} |-> fs[g]]

(***************************************************************************)
(* transcribe.py: get_file_size and split_audio_if_needed.                 *)
(***************************************************************************)
\* round(size_bytes / (1024 * 1024), 2), in hundredths of a megabyte.  The
\* quotient is exact in binary floating point and round() rounds the exact
\* value half to even; 100 / 2^20 is written 25 / 2^18.
GetFileSize(size) ==
    LET q == (size * 25) \div 262144
        r == (size * 25) % 262144
    IN  IF r > 131072 THEN q + 1
        ELSE IF r < 131072 THEN q
        ELSE IF q % 2 = 0 THEN q ELSE q + 1

\* max_sec = int(max_bytes / bytes_per_sec), bytes_per_sec = size / duration
MaxSec(size, dur, max_mb) ==
    ((max_mb * 1024 * 1024) * dur.num) \div (size * dur.den)

\* int(duration_sec // max_sec) + (1 if duration_sec % max_sec else 0)
NumParts(dur, max_sec) ==
    (dur.num \div (dur.den * max_sec))
        + (IF dur.num % (dur.den * max_sec) # 0 THEN 1 ELSE 0)

\* split_dir of split_audio_if_needed
SplitterDir(path) == JoinDir(DirName(path), BaseName(path))

\* part_path of part number n (n = i + 1)
PartPath(path, n) ==
    [dir  |-> SplitterDir(path),
     stem |-> BaseName(path) \o <<"_part", ToString(n)>>,
     ext  |-> path.ext]

NotSplit(path) ==
    [raised |-> FALSE, parts |-> <<[path |-> path, part_idx |-> 1]>>,
     probes |-> 0, runs |-> <<>>, made |-> {}, written |-> {}]

SplitRaised(made, runs, written) ==
    [raised |-> TRUE, parts |-> <<>>, probes |-> 1, runs |-> runs,
     made |-> made, written |-> written]

\* split_audio_if_needed(path, max_mb) on a file of the given size and
\* probed duration (den = 0: ffprobe printed no duration).  fail_at = k > 0:
\* the k-th ffmpeg run exits non-zero; 0: none does.
SplitAudioIfNeeded(path, max_mb, size, dur, fail_at) ==
    IF GetFileSize(size) <= max_mb * 100 THEN NotSplit(path)
    ELSE IF dur.den = 0 \/ dur.num = 0 THEN SplitRaised({}, <<>>, {})
    ELSE LET max_sec == MaxSec(size, dur, max_mb) IN
         IF max_sec = 0 THEN SplitRaised({}, <<>>, {})
         ELSE LET num_parts == NumParts(dur, max_sec)
                  run(n) == [ss |-> (n - 1) * max_sec, t |-> max_sec,
                             out |-> PartPath(path, n)]
              IN  IF fail_at \in 1..num_parts
                  THEN SplitRaised({SplitterDir(path)},
                                   [n \in 1..fail_at |-> run(n)],
                                   {PartPath(path, n) : n \in 1..(fail_at - 1)})
                  ELSE [raised  |-> FALSE,
                        parts   |-> [n \in 1..num_parts |->
                                       [path |-> PartPath(path, n),
                                        part_idx |-> n]],
                        probes  |-> 1,
                        runs    |-> [n \in 1..num_parts |-> run(n)],
                        made    |-> {SplitterDir(path)},
                        written |-> {PartPath(path, n) : n \in 1..num_parts}]

(***************************************************************************)
(* transcribe.py: transcribe_audio.                                        *)
(***************************************************************************)
audio_file_path == JoinFile(AUDIO_DIR, audio_filename)

base_name == BaseName(audio_filename)

\* split_dir as transcribe_audio computes it
split_dir == JoinDir(AUDIO_DIR, base_name)

output_dir == JoinDir(OUTPUT_DIR, base_name)

multiple_parts == Len(audio_parts) > 1

\* a plausible fault: the part number is left out of the name
TranscriptionPathPlain(part_idx) ==
    [dir |-> output_dir, stem |-> base_name, ext |-> "txt"]

\* f"{base_name}_part{part_idx}.txt" under output_dir
TranscriptionPath(part_idx) ==
    [dir  |-> output_dir,
     stem |-> base_name \o <<"_part", ToString(part_idx)>>,
     ext  |-> "txt"]

\* keyword arguments of the call provider.transcribe(part_path, ...)
CallKwargs == {"language", "prompt", "num_speakers", "return_segments"}

\* keyword parameters the transcribe method of each provider class declares
DeclaredParams(cls) ==
    IF cls = "whisper" THEN {"language", "prompt"}
    ELSE {"language", "prompt", "num_speakers", "return_segments",
          "global_speaker_map", "global_speaker_texts", "next_speaker_id"}

\* the call binds; otherwise Python raises TypeError
CallAccepted(cls) == CallKwargs \subseteq DeclaredParams(cls)

AudioFilenames ==
    {[dir |-> <<>>, stem |-> <<"interview">>, ext |-> "m4a"],
     [dir |-> << <<"sub">> >>, stem |-> <<"interview">>, ext |-> "m4a"]}

\* sizes around the ceiling of MAX_MB megabytes, and 10, 14 and 21 MB
Sizes == {1048576, 7340032, 7340033, 7345274, 7345275,
          10485760, 14680064, 22020096}

\* probed durations: none, 0, 1.5, 10, 10.5 and 30 seconds
Durations == {[num |-> 0, den |-> 0], [num |-> 0, den |-> 1],
              [num |-> 3, den |-> 2], [num |-> 10, den |-> 1],
              [num |-> 21, den |-> 2], [num |-> 30, den |-> 1]}

\* what the endpoint answers to a chunk in a run of transcribe_audio
ChunkResponses ==
    {ErrorResponse,
     TextResponse(<<"Hello", " ", "there">>),
     WordsResponse(<<[type |-> "word", text |-> <<"Hello">>, speaker_id |-> "spk_a"],
                     [type |-> "word", text |-> <<"there">>, speaker_id |-> "spk_a"],
                     [type |-> "word", text |-> <<"Hi">>, speaker_id |-> "spk_b"]>>),
     WordsResponse(<<>>)}

Init ==
    /\ audio_filename \in AudioFilenames
    /\ provider_cfg \in {"whisper", "elevenlabs_scribe", "other"}
    /\ api_key \in BOOLEAN
    /\ \E exists \in BOOLEAN :
          /\ IF exists
             THEN /\ size_bytes \in Sizes
                  /\ duration \in Durations
                  /\ files = (audio_file_path :> <<"audio">>)
             ELSE /\ size_bytes = 0
                  /\ duration = [num |-> 0, den |-> 0]
                  /\ files = <<>>
    /\ \E pre \in SUBSET {JoinDir(AUDIO_DIR, <<"interview">>)} :
          dirs = MakeDirs({}, DirName(audio_file_path)) \cup pre
    /\ pc = "start"
    /\ audio_parts = <<>>
    /\ idx = 0
    /\ ffprobe_runs = 0
    /\ ffmpeg_runs = <<>>
    /\ split_dir_made = {}
    /\ removed_dirs = {}
    /\ attempts = <<>>
    /\ printed = ""
    /\ response = NoResponse
    /\ calls = 0
    /\ call = NoLocals

\* os.makedirs(OUTPUT_DIR) and os.makedirs(output_dir), lines 67-74
MakeOutputDirs ==
    /\ pc = "start"
    /\ dirs' = MakeDirs(MakeDirs(dirs, OUTPUT_DIR), output_dir)
    /\ pc' = "check"
    /\ UNCHANGED <<env_vars, files, audio_parts, idx, ffprobe_runs,
                   ffmpeg_runs, split_dir_made, removed_dirs, attempts,
                   printed, response, calls, call>>

\* if not os.path.exists(audio_file_path): print and return, lines 76-78
CheckSource ==
    /\ pc = "check"
    /\ IF audio_file_path \in DOMAIN files
       THEN pc' = "split" /\ printed' = printed
       ELSE pc' = "done" /\ printed' = "not_found"
    /\ UNCHANGED <<env_vars, dirs, files, audio_parts, idx, ffprobe_runs,
                   ffmpeg_runs, split_dir_made, removed_dirs, attempts,
                   response, calls, call>>

\* audio_parts = split_audio_if_needed(audio_file_path, max_mb=MAX_MB),
\* line 81; an exception leaves through the outer except, line 109
SplitAudio ==
    /\ pc = "split"
    /\ \E fail_at \in 0..Len(SplitAudioIfNeeded(audio_file_path, MAX_MB,
                                 size_bytes, duration, 0).parts) :
          LET r == SplitAudioIfNeeded(audio_file_path, MAX_MB, size_bytes,
                                      duration, fail_at)
          IN  /\ fail_at > 0 => r.raised
              /\ ffprobe_runs' = ffprobe_runs + r.probes
              /\ ffmpeg_runs' = ffmpeg_runs \o r.runs
              /\ split_dir_made' = split_dir_made \cup r.made
              /\ dirs' = UNION {MakeDirs(dirs, d) : d \in r.made} \cup dirs
              /\ files' = [p \in r.written |-> <<"audio">>] @@ files
              /\ audio_parts' = r.parts
              /\ IF r.raised
                 THEN pc' = "done" /\ printed' = "general_error"
                 ELSE pc' = "provider" /\ printed' = printed
    /\ UNCHANGED <<env_vars, idx, removed_dirs, attempts, response, calls,
                   call>>

\* provider = get_audio_to_text_provider(), line 84
GetProvider ==
    /\ pc = "provider"
    /\ IF provider_cfg \in {"whisper", "elevenlabs_scribe"}
       THEN pc' = "loop" /\ idx' = 1 /\ printed' = printed
       ELSE pc' = "done" /\ idx' = idx /\ printed' = "general_error"
    /\ UNCHANGED <<env_vars, dirs, files, audio_parts, ffprobe_runs,
                   ffmpeg_runs, split_dir_made, removed_dirs, attempts,
                   response, calls, call>>

\* a plausible fault: the chunk file is removed whatever the number of parts
FinallyRemoveAlways(fs, part_path, multiple) ==
    IF part_path \in DOMAIN fs THEN RemoveFile(fs, part_path) ELSE fs

\* finally: if multiple_parts and os.path.exists(part_path): os.remove(part_path)
FinallyRemove(fs, part_path, multiple) ==
    IF multiple /\ part_path \in DOMAIN fs THEN RemoveFile(fs, part_path)
    ELSE fs

\* with open(transcription_path, "w") as f: f.write(transcription_text)
WriteText(fs, path, text) == (path :> text) @@ fs

\* one iteration of the for loop, lines 87-101: the provider call, the
\* write of its result, the except and the finally clause
ProcessPart ==
    /\ pc = "loop"
    /\ idx <= Len(audio_parts)
    /\ LET part_path == audio_parts[idx].path
           part_idx  == audio_parts[idx].part_idx
       IN  IF part_path \notin DOMAIN files
           THEN \* get_file_size(part_path) raises, line 88
                /\ pc' = "done"
                /\ printed' = "general_error"
                /\ UNCHANGED <<files, idx, attempts, response, calls, call>>
           ELSE IF ~CallAccepted(provider_cfg)
           THEN \* TypeError, caught at line 97
                /\ files' = FinallyRemove(files, part_path, multiple_parts)
                /\ attempts' = Append(attempts,
                       [part_idx |-> part_idx, path |-> part_path,
                        outcome |-> "raised"])
                /\ calls' = calls + 1
                /\ idx' = idx + 1
                /\ UNCHANGED <<pc, printed, response, call>>
           ELSE \E resp \in (IF api_key THEN ChunkResponses ELSE {NoResponse}) :
                LET ret == IF provider_cfg = "whisper"
                           THEN [NoLocals EXCEPT !.text = WhisperTranscribe(resp)]
                           ELSE ScribeTranscribe(api_key, resp)
                IN  /\ response' = resp
                    /\ call' = ret
                    /\ calls' = calls + 1
                    /\ files' = FinallyRemove(
                                   WriteText(files, TranscriptionPath(part_idx),
                                             ret.text),
                                   part_path, multiple_parts)
                    /\ attempts' = Append(attempts,
                           [part_idx |-> part_idx, path |-> part_path,
                            outcome |-> IF resp.status = "ok" THEN "ok"
                                        ELSE "failed_empty"])
                    /\ idx' = idx + 1
                    /\ UNCHANGED <<pc, printed>>
    /\ UNCHANGED <<env_vars, dirs, audio_parts, ffprobe_runs, ffmpeg_runs,
                   split_dir_made, removed_dirs>>

\* after the loop, lines 103-107: remove split_dir when it is empty
Cleanup ==
    /\ pc = "loop"
    /\ idx > Len(audio_parts)
    /\ IF multiple_parts /\ split_dir \in dirs /\ IsEmptyDir(dirs, files, split_dir)
       THEN /\ dirs' = dirs \ {split_dir}
            /\ removed_dirs' = removed_dirs \cup {split_dir}
       ELSE UNCHANGED <<dirs, removed_dirs>>
    /\ pc' = "done"
    /\ printed' = "finished"
    /\ UNCHANGED <<env_vars, files, audio_parts, idx, ffprobe_runs,
                   ffmpeg_runs, split_dir_made, attempts, response, calls,
                   call>>

Next ==
    \/ MakeOutputDirs
    \/ CheckSource
    \/ SplitAudio
    \/ GetProvider
    \/ ProcessPart
    \/ Cleanup

Spec == Init /\ [][Next]_vars

(***************************************************************************)
(* Reference notions for the run of transcribe_audio.                      *)
(***************************************************************************)
\* split_audio_if_needed has returned its list of parts
SplitReturned == audio_parts # <<>>

\* the run went past the call of split_audio_if_needed
SplitDone ==
    \/ pc \in {"provider", "loop"}
    \/ pc = "done" /\ printed # "not_found"

\* every chunk was processed and the run ended normally
RunFinished == pc = "done" /\ printed = "finished"

CeilingBytes == MAX_MB * 1024 * 1024

\* smallest n with n * m >= dur, for m >= 1
CeilDiv(dur, m) ==
    CHOOSE n \in 0..(dur.num + 1) :
        /\ n * m * dur.den >= dur.num
        /\ (n - 1) * m * dur.den < dur.num

\* the name '<basename>_part<N>.txt' in the per-file output directory
PartName(n) ==
    [dir |-> JoinDir(OUTPUT_DIR, audio_filename.stem),
     stem |-> audio_filename.stem \o <<"_part", ToString(n)>>,
     ext |-> "txt"]

\* the name '<basename>.txt' in the per-file output directory
PlainName ==
    [dir |-> JoinDir(OUTPUT_DIR, audio_filename.stem),
     stem |-> audio_filename.stem,
     ext |-> "txt"]

\* the files of the per-file output directory
OutputFiles ==
    {f \in DOMAIN files : f.dir = JoinDir(OUTPUT_DIR, audio_filename.stem)}

(***************************************************************************)
(* C2: after the run, a chunk whose provider call failed (an exception, or *)
(* the empty text a provider returns after an error or without an API key) *)
(* has no output file, every chunk whose call succeeded has one, and the   *)
(* chunks are attempted in ascending partIndex order.  The code writes the *)
(* empty text of a failed call to the chunk's file, so this is violated.   *)
(***************************************************************************)
C2_FailedChunkHasNoOutputFile ==
    RunFinished =>
        /\ Len(attempts) = Len(audio_parts)
        /\ \A i \in 1..Len(attempts) :
              /\ attempts[i].part_idx = i
              /\ attempts[i].outcome = "ok" => PartName(i) \in DOMAIN files
              /\ attempts[i].outcome # "ok" => PartName(i) \notin DOMAIN files

(***************************************************************************)
(* C3, as claimed: an output file is named '<basename>_part<N>.txt' when   *)
(* the input was split into more than one chunk and '<basename>.txt' when  *)
(* it was not.                                                             *)
(***************************************************************************)
C3_PlainNameWhenNotSplit ==
    \A f \in OutputFiles :
        IF multiple_parts
        THEN \E i \in 1..Len(attempts) : f = PartName(attempts[i].part_idx)
        ELSE f = PlainName

(***************************************************************************)
(* C3, amended: every output file is named '<basename>_part<N>.txt', N the *)
(* partIndex of an attempted chunk, also when the input was not split      *)
(* (then N = 1).                                                           *)
(***************************************************************************)
C3_OutputNamedByPartIndex ==
    \A f \in OutputFiles :
        \E i \in 1..Len(attempts) : f = PartName(attempts[i].part_idx)

\* an unsplit input whose only chunk was transcribed and written
C3_Witness ==
    /\ RunFinished
    /\ ~multiple_parts
    /\ OutputFiles = {PartName(1)}
    /\ files[PartName(1)] = <<"Hello", " ", "there">>

(***************************************************************************)
(* C4: for a file larger than the ceiling with maxSecondsPerChunk >= 1,    *)
(* the splitter returns ceil(duration / maxSecondsPerChunk) chunks         *)
(* numbered 1..numParts, chunk i (0-based) cut at i * maxSecondsPerChunk   *)
(* with requested length maxSecondsPerChunk; the last chunk starts before  *)
(* the end and the chunks cover the duration.  A file up to 5242 bytes     *)
(* above the ceiling is not split at all (see C5), so this is violated.    *)
(***************************************************************************)
C4_ChunkPlan ==
    (/\ SplitReturned
     /\ size_bytes > CeilingBytes
     /\ duration.den > 0 /\ duration.num > 0
     /\ MaxSec(size_bytes, duration, MAX_MB) >= 1)
    => LET m == MaxSec(size_bytes, duration, MAX_MB)
           n == CeilDiv(duration, m)
       IN  /\ Len(audio_parts) = n
           /\ Len(ffmpeg_runs) = n
           /\ \A i \in 1..Len(audio_parts) :
                 /\ audio_parts[i].part_idx = i
                 /\ i <= Len(ffmpeg_runs)
                 /\ ffmpeg_runs[i].ss = (i - 1) * m
                 /\ ffmpeg_runs[i].t = m
                 /\ ffmpeg_runs[i].out = audio_parts[i].path
           /\ (n - 1) * m * duration.den < duration.num
           /\ n * m * duration.den >= duration.num

\* the same plan for the files the splitter does take as oversized: those
\* whose size rounded to hundredths of a megabyte exceeds the ceiling
C4_PlanInSplitBranch ==
    (/\ SplitReturned
     /\ GetFileSize(size_bytes) > MAX_MB * 100)
    => LET m == MaxSec(size_bytes, duration, MAX_MB)
           n == CeilDiv(duration, m)
       IN  /\ m >= 1
           /\ n >= 2
           /\ Len(audio_parts) = n
           /\ Len(ffmpeg_runs) = n
           /\ \A i \in 1..n :
                 /\ audio_parts[i].part_idx = i
                 /\ ffmpeg_runs[i].ss = (i - 1) * m
                 /\ ffmpeg_runs[i].t = m
                 /\ ffmpeg_runs[i].out = audio_parts[i].path
           /\ (n - 1) * m * duration.den < duration.num
           /\ n * m * duration.den >= duration.num

(***************************************************************************)
(* C5: the splitter returns [(path, 1)], makes no directory and runs no    *)
(* external tool when the size is at most the ceiling, and takes the       *)
(* splitting branch for every file of more than MAX_MB * 1024 * 1024       *)
(* bytes.  The code compares the size rounded to hundredths of a megabyte, *)
(* so a file slightly above the ceiling is returned unsplit.               *)
(***************************************************************************)
C5_SplitDecisionByBytes ==
    SplitDone =>
        /\ size_bytes <= CeilingBytes =>
              /\ audio_parts = <<[path |-> JoinFile(AUDIO_DIR, audio_filename),
                                  part_idx |-> 1]>>
              /\ split_dir_made = {}
              /\ ffprobe_runs = 0
              /\ ffmpeg_runs = <<>>
        /\ size_bytes > CeilingBytes => ffprobe_runs > 0

(***************************************************************************)
(* C6: a chunk's audio file is deleted right after its transcription       *)
(* attempt, successful or not, exactly when the splitter produced more     *)
(* than one chunk; chunks not yet attempted are still there; the source    *)
(* audio file is never deleted.                                            *)
(***************************************************************************)
C6_ChunkDeletedIffSplit ==
    /\ (pc \notin {"start", "check"} /\ printed # "not_found")
          => JoinFile(AUDIO_DIR, audio_filename) \in DOMAIN files
    /\ \A i \in 1..Len(attempts) :
          (attempts[i].path \notin DOMAIN files) <=> (Len(audio_parts) > 1)
    /\ pc = "loop" =>
          \A i \in (Len(attempts) + 1)..Len(audio_parts) :
              audio_parts[i].path \in DOMAIN files

\* a split input: one chunk transcribed, one failed, both deleted, a third
\* not yet attempted
C6_Witness ==
    /\ pc = "loop"
    /\ Len(audio_parts) = 3
    /\ Len(attempts) = 2
    /\ attempts[1].outcome = "ok"
    /\ attempts[2].outcome = "failed_empty"
    /\ attempts[1].path \notin DOMAIN files
    /\ attempts[2].path \notin DOMAIN files
    /\ audio_parts[3].path \in DOMAIN files
    /\ JoinFile(AUDIO_DIR, audio_filename) \in DOMAIN files

(***************************************************************************)
(* C7: for every input file name, with or without a directory component,   *)
(* that is split into more than one chunk, after all chunks are processed  *)
(* the working subdirectory the splitter made is removed, and no other     *)
(* directory is.  transcribe_audio computes the directory from AUDIO_DIR   *)
(* and the base name alone, so for "sub/interview.m4a" it looks at         *)
(* "./interview" and leaves "./sub/interview" behind.                      *)
(***************************************************************************)
C7_WorkingDirRemoved ==
    (RunFinished /\ Len(audio_parts) > 1) =>
        /\ \A d \in split_dir_made : d \notin dirs
        /\ removed_dirs \subseteq split_dir_made

(***************************************************************************)
(* C10: when the source file does not exist the run reports it and         *)
(* returns without having created the per-file output subdirectory and     *)
(* without calling the splitter or the provider.  The code creates the     *)
(* directory before it looks for the file.                                 *)
(***************************************************************************)
C10_MissingSourceCreatesNothing ==
    printed = "not_found" =>
        /\ JoinDir(OUTPUT_DIR, audio_filename.stem) \notin dirs
        /\ audio_parts = <<>>
        /\ ffprobe_runs = 0
        /\ calls = 0

(***************************************************************************)
(* C11: whichever of the two providers is configured, the per-chunk call   *)
(* provider.transcribe(part_path, language, prompt, num_speakers, ...) is  *)
(* accepted by it, and a chunk whose transcription succeeds has the        *)
(* returned text in its output file.  WhisperProvider.transcribe declares  *)
(* neither num_speakers nor return_segments, so with "whisper" every call  *)
(* raises TypeError before any request is made and nothing is written.     *)
(***************************************************************************)
C11_CallAcceptedByEitherProvider ==
    provider_cfg \in {"whisper", "elevenlabs_scribe"} =>
        /\ \A i \in 1..Len(attempts) : attempts[i].outcome # "raised"
        /\ (attempts # <<>> /\ attempts[Len(attempts)].outcome = "ok") =>
              /\ PartName(attempts[Len(attempts)].part_idx) \in DOMAIN files
              /\ files[PartName(attempts[Len(attempts)].part_idx)] = call.text

\* the same for the diarized provider alone, where the call binds
C11_ScribeCallAccepted ==
    provider_cfg = "elevenlabs_scribe" =>
        /\ \A i \in 1..Len(attempts) : attempts[i].outcome # "raised"
        /\ (attempts # <<>> /\ attempts[Len(attempts)].outcome = "ok") =>
              /\ PartName(attempts[Len(attempts)].part_idx) \in DOMAIN files
              /\ files[PartName(attempts[Len(attempts)].part_idx)] = call.text

====
